---- MODULE Spec2Model ----
(***************************************************************************)
(* Model of src/sample.py: the two workers of the ray-file tool.           *)
(*   DatToTxtWorker.run   (Convert:   binary ray file -> ASCII ray file)   *)
(*   SubsampleWorker.run  (Subsample: ASCII ray file -> smaller ray set,   *)
(*                         written as txt / tracepro / dat)                *)
(* Each run is a sequence of steps; the signals a worker emits are kept in *)
(* the order of emission in the variable events.                           *)
(*                                                                         *)
(* The window that constructs the workers is their environment: a run     *)
(* starts from the arguments of the worker's constructor and the content   *)
(* of its input file.  Float arithmetic (progress ticks, quotas, scaled    *)
(* flux, float32 storage) is done bit by bit.                              *)
(***************************************************************************)
EXTENDS Integers, Sequences, FiniteSets, TLC

VARIABLES
    op,            \* which worker runs: "convert" or "subsample"
    pc,            \* position of the running worker in its run()
    events,        \* signals emitted so far, in order
    binFile,       \* the binary file Convert reads (input_file)
    pos,           \* Convert: float32 words of the body consumed so far
    i,             \* Convert: loop index of `for i in range(nbr_rays)`
    txtFile,       \* the ASCII file Subsample reads (input_file)
    target_rays,   \* Subsample parameter
    output_format, \* Subsample parameter: "txt", "tracepro", "dat"
    method,        \* Subsample parameter: "random", "angular_stratified"
    header,        \* Subsample: tokens of the header line found
    ray_lines,     \* Subsample: the 7-token lines after the header
    sampled_rays,  \* Subsample: the lines selected
    sampled,       \* Subsample: TRUE once the sampling step has returned
    ray_data,      \* Subsample: parsed rays with scaled, sanitized flux
    binKeys,       \* stratified: keys of `bins` in insertion order
    alloc,         \* stratified: quota per bin key
    alloc0,        \* stratified: quota per bin key right after the clamp
    current_total, \* stratified: running sum of the quotas
    order,         \* stratified: keys in the order the reconcile loop visits
    oi,            \* stratified: position in order
    out            \* the output file of the running worker

vars == <<op, pc, events, binFile, pos, i, txtFile, target_rays,
          output_format, method, header, ray_lines, sampled_rays, sampled,
          ray_data, binKeys, alloc, alloc0, current_total, order, oi, out>>

cvVars == <<binFile, pos, i>>
ssParams == <<txtFile, target_rays, output_format, method>>
ssLocals == <<header, ray_lines, sampled_rays, sampled, ray_data>>
stLocals == <<binKeys, alloc, alloc0, current_total, order, oi>>

(***************************************************************************)
(* Bounds of the model.                                                    *)
(***************************************************************************)
MaxCount == 2        \* largest ray_count in a header
MaxWords == 16       \* largest number of float32 words in a binary body
MaxRays == 2         \* most ray lines in an input of the flux family
MaxDirRays == 3      \* most ray lines in an input of the direction family
MaxPop == 3          \* most rays per bin in an input of the stratified family
MaxStratTarget == 7  \* largest target_rays in the stratified family

(***************************************************************************)
(* Program constants.                                                      *)
(***************************************************************************)
HeaderSize == 208
ProgressEvery == 10000
IdentA == 1010
IdentB == 8675309

Max(a, b) == IF a >= b THEN a ELSE b
Min(a, b) == IF a <= b THEN a ELSE b

(***************************************************************************)
(* Flux values as read.  Every flux token of the model denotes an integer  *)
(* times a power of two, n * 2^e with e = 0 or e = -160, so float() is     *)
(* exact on it and the sums of the binning prepass are exact as well (the  *)
(* model has fewer than 2^27 rays).  nan, inf and -inf are values of their *)
(* own.                                                                    *)
(***************************************************************************)
Abs(a) == IF a < 0 THEN -a ELSE a

FNan == [k |-> "nan", n |-> 0, e |-> 0]
FInf == [k |-> "inf", n |-> 0, e |-> 0]
FNegInf == [k |-> "ninf", n |-> 0, e |-> 0]

\* the finite value n * 2^e
Fin(n, e) == [k |-> "fin", n |-> n, e |-> IF n = 0 THEN 0 ELSE e]

FZero == Fin(0, 0)

\* the shortest decimal text of 2^-160, a value of the double range far
\* below the float32 range
TinyTok == "6.842277657836021e-49"

\* float(token) for the flux tokens of the model; "x" is not a number
ParseOK(tok) == tok # "x"
ParseFloat(tok) ==
    CASE tok = "nan" -> FNan
      [] tok = "inf" -> FInf
      [] tok = "-1" -> Fin(-1, 0)
      [] tok = "0" -> Fin(0, 0)
      [] tok = "1" -> Fin(1, 0)
      [] tok = TinyTok -> Fin(1, -160)
      [] OTHER -> FNan

\* math.isfinite(v)
IsFinite(v) == v.k = "fin"

\* max(0.0, flux): nan and every value <= 0 give 0.0
FMax0(v) ==
    IF v.k \in {"nan", "ninf"} \/ (v.k = "fin" /\ v.n <= 0) THEN FZero ELSE v

\* a + b for a, b >= 0: values of the same exponent add exactly, and a
\* multiple of 2^-160 is absorbed by a value of at least 1
FAdd(a, b) ==
    CASE a.k = "inf" \/ b.k = "inf" -> FInf
      [] a.n = 0 -> b
      [] b.n = 0 -> a
      [] a.e = b.e -> Fin(a.n + b.n, a.e)
      [] a.e > b.e -> a
      [] OTHER -> b

\* v > 0 (flux totals are never nan)
GtZero(v) == v.k = "inf" \/ (v.k = "fin" /\ v.n > 0)

(***************************************************************************)
(* Python float arithmetic (IEEE-754 binary64, round to nearest, ties to   *)
(* even), bit by bit.  A positive double is its 53-bit significand m (most *)
(* significant bit first, m[1] = 1) and the exponent e of m[1]: its value  *)
(* is the sum of m[j] * 2^(e + 1 - j).  The operations are the ones the    *)
(* code applies: the true division of two integers, the product of a       *)
(* double with an integer, int() and round().  The integers are below      *)
(* 2^27.                                                                   *)
(***************************************************************************)
MantBits == 53       \* significand bits of a binary64
DivNibbles == 24     \* quotient bits produced before rounding, in fours

\* the n low bits of v, most significant first
ToBitsN(v, n) == [j \in 1..n |-> (v \div 2^(n - j)) % 2]

\* the bits of n >= 0 without leading zeros
ToBits(n) ==
    ToBitsN(n, CHOOSE len \in 0..30 :
                   /\ n < 2^len
                   /\ len > 0 => n >= 2^(len - 1))

\* the number whose bits are b
RECURSIVE BitsVal(_)
BitsVal(b) ==
    IF b = <<>> THEN 0
    ELSE 2 * BitsVal(SubSeq(b, 1, Len(b) - 1)) + b[Len(b)]

\* 4 * cnt bits of the binary expansion of rem / r (0 <= rem < r), then
\* one more entry that is 1 when the expansion goes on
RECURSIVE FracBits(_, _, _)
FracBits(rem, r, cnt) ==
    IF cnt = 0 THEN <<IF rem # 0 THEN 1 ELSE 0>>
    ELSE ToBitsN((16 * rem) \div r, 4) \o FracBits((16 * rem) % r, r, cnt - 1)

\* b + 1 for a significand b that is not all ones
IncBits(b) ==
    LET z == CHOOSE z \in 1..Len(b) :
                 b[z] = 0 /\ \A j \in (z + 1)..Len(b) : b[j] = 1
    IN [j \in 1..Len(b) |-> IF j < z THEN b[j] ELSE IF j = z THEN 1 ELSE 0]

\* b followed by zeros, 53 bits in all
Pad(b) == b \o [j \in 1..(MantBits - Len(b)) |-> 0]

\* the value of the bits b (b[1] = 1 of weight 2^e) rounded to prec
\* significant bits, prec in 1..53
RoundBits(b, e, prec) ==
    IF Len(b) <= prec
    THEN [m |-> Pad(b), e |-> e]
    ELSE LET m == SubSeq(b, 1, prec)
             guard == b[prec + 1]
             sticky == \E j \in (prec + 2)..Len(b) : b[j] = 1
             up == guard = 1 /\ (sticky \/ m[prec] = 1)
         IN IF ~up THEN [m |-> Pad(m), e |-> e]
            ELSE IF \A j \in 1..prec : m[j] = 1
            THEN [m |-> Pad(<<1>>), e |-> e + 1]
            ELSE [m |-> Pad(IncBits(m)), e |-> e]

\* the double nearest to the value of the bits b (b[1] = 1 of weight 2^e)
Round53(b, e) == RoundBits(b, e, MantBits)

\* the double nearest to the value of the bits b, b[1] of weight 2^(w - 1)
\* and at least one bit of b set
Normalized(b, w) ==
    LET first == CHOOSE z \in 1..Len(b) : b[z] = 1 /\ \A j \in 1..(z - 1) : b[j] = 0
    IN Round53(SubSeq(b, first, Len(b)), w - first)

\* p / r in doubles, for integers p > 0 and r > 0
FloatDiv(p, r) ==
    Normalized(ToBits(p \div r) \o FracBits(p % r, r, DivNibbles),
               Len(ToBits(p \div r)))

\* the bits of (value of b) * k + carry, for an integer k > 0; four bits
\* of b are consumed at a time
RECURSIVE MulBits(_, _, _)
MulBits(b, k, carry) ==
    IF b = <<>> THEN ToBits(carry)
    ELSE LET n == Min(4, Len(b))
             t == BitsVal(SubSeq(b, Len(b) - n + 1, Len(b))) * k + carry
         IN MulBits(SubSeq(b, 1, Len(b) - n), k, t \div 2^n) \o ToBitsN(t % 2^n, n)

\* the double whose significand is rounded from the bits b, the last bit
\* of b having the weight of the last bit of a double of exponent e
Rescaled(b, e) == Round53(b, e - MantBits + Len(b))

\* k * x in doubles, for an integer k > 0 and a double x > 0
FloatMulInt(k, x) == Rescaled(MulBits(x.m, k, 0), x.e)

\* a double x > 0 as its integer part, whether its fraction is at least
\* one half, and whether anything lies beyond that
Parts(x) ==
    [ip |-> IF x.e < 0 THEN 0
            ELSE BitsVal(SubSeq(x.m, 1, Min(MantBits, x.e + 1))),
     half |-> x.e >= -1 /\ x.e + 2 <= MantBits /\ x.m[x.e + 2] = 1,
     rest |-> \E j \in Max(1, x.e + 3)..MantBits : x.m[j] = 1]

\* |k * (p / r)| as the code computes it, for integers k, p >= 0, r > 0
FloatProd(k, p, r) ==
    IF k = 0 \/ p = 0 THEN [ip |-> 0, half |-> FALSE, rest |-> FALSE]
    ELSE Parts(FloatMulInt(Abs(k), FloatDiv(p, r)))

\* int(x) and round(x) of the float +x or -x: truncation towards zero, and
\* the nearest integer, a tie going to the even one
Truncated(neg, x) == IF neg THEN -x.ip ELSE x.ip
Rounded(neg, x) ==
    IF x.half /\ (x.rest \/ x.ip % 2 = 1)
    THEN (IF neg THEN -(x.ip + 1) ELSE x.ip + 1)
    ELSE (IF neg THEN -x.ip ELSE x.ip)

\* int(k * (p / r))
IntProd(k, p, r) == Truncated(k < 0, FloatProd(k, p, r))

\* int(round(k * (p / r)))
RoundProd(k, p, r) == Rounded(k < 0, FloatProd(k, p, r))

(***************************************************************************)
(* Computed values: doubles with a sign.  A finite value is s * (the       *)
(* double of significand m and exponent e), s in {-1, 0, 1}; 0.0 and -0.0  *)
(* are both s = 0.  A float32 read from a file is the double of the same   *)
(* value.                                                                  *)
(***************************************************************************)
SingleBits == 24       \* significand bits of a float32
MinNormal32 == -126    \* exponent of the smallest normal float32

DNan == [k |-> "nan", s |-> 0, m |-> <<>>, e |-> 0]
DInf == [k |-> "inf", s |-> 0, m |-> <<>>, e |-> 0]
DNegInf == [k |-> "ninf", s |-> 0, m |-> <<>>, e |-> 0]
DZero == [k |-> "fin", s |-> 0, m |-> <<>>, e |-> 0]

\* s * x * 2^sh for a double x > 0
Shifted(s, x, sh) == [k |-> "fin", s |-> s, m |-> x.m, e |-> x.e + sh]

\* float(n) for an integer n
FromInt(n) ==
    IF n = 0 THEN DZero
    ELSE Shifted(IF n < 0 THEN -1 ELSE 1,
                 Round53(ToBits(Abs(n)), Len(ToBits(Abs(n))) - 1), 0)

\* v * (p / q) for a flux v as read and integers p, q # 0: the quotient
\* scale_factor = p / q is one double division, the product
\* ray[6] * scale_factor one double multiplication
FMulRat(v, p, q) ==
    LET sgn == IF (p < 0) # (q < 0) THEN -1 ELSE 1
    IN CASE v.k = "nan" -> DNan
         [] v.k \in {"inf", "ninf"} ->
              IF p = 0 THEN DNan
              ELSE IF (v.k = "inf") = (sgn = 1) THEN DInf ELSE DNegInf
         [] v.n = 0 \/ p = 0 -> DZero
         [] OTHER -> Shifted(IF v.n < 0 THEN -sgn ELSE sgn,
                             FloatMulInt(Abs(v.n), FloatDiv(Abs(p), Abs(q))), v.e)

\* the floor value 1e-30 as a double: 0x1.4484bfeebc2a0p-100
FloorVal ==
    [k |-> "fin", s |-> 1,
     m |-> <<1, 0, 1, 0, 0, 0, 1, 0, 0, 1, 0, 0, 0, 0, 1, 0, 0, 1, 0, 1, 1, 1,
             1, 1, 1, 1, 1, 1, 0, 1, 1, 1, 0, 1, 0, 1, 1, 1, 1, 0, 0, 0, 0, 1,
             0, 1, 0, 1, 0, 0, 0, 0, 0>>,
     e |-> -100]

\* if (not math.isfinite(v)) or v <= 0.0: v = 1e-30
Sanitize(v) == IF (~IsFinite(v)) \/ v.s <= 0 THEN FloorVal ELSE v

\* struct.pack('f', v) read back: the float32 nearest to v, ties to even.
\* From 2^-126 on the significand is rounded to 24 bits; below, the value
\* is rounded to a multiple of 2^-149, the spacing of the float32
\* subnormals, which is 0.0 up to 2^-150.  (struct.pack raises for a
\* finite value beyond the float32 range; the values of the model are
\* below 2^28.)
Pack32(v) ==
    IF v.k # "fin" \/ v.s = 0 THEN v
    ELSE LET keep == IF v.e >= MinNormal32 THEN SingleBits
                     ELSE v.e - MinNormal32 + SingleBits
         IN IF keep >= 1 THEN Shifted(v.s, RoundBits(v.m, v.e, keep), 0)
            ELSE IF keep = 0 /\ \E j \in 2..MantBits : v.m[j] = 1
            THEN Shifted(v.s, [m |-> Pad(<<1>>), e |-> v.e + 1], 0)
            ELSE DZero

(***************************************************************************)
(* Signals.                                                                *)
(***************************************************************************)
Ev(sig, s, n) == [sig |-> sig, s |-> s, n |-> n]
Progress(n) == Ev("progress_changed", "", n)
Status(s) == Ev("status_changed", s, 0)
Finished == Ev("finished", "output_file", 0)
ErrorEv(s, n) == Ev("error", s, n)

\* the ticks of a loop that started `started` iterations, one every
\* ProgressEvery iterations, each computed by Tick(i)
Ticks(started, Tick(_)) ==
    LET cnt == (started + ProgressEvery - 1) \div ProgressEvery
    IN [j \in 1..cnt |-> Progress(Tick((j - 1) * ProgressEvery))]

\* the `except` branch and the jump to `finally`
Fail(s, n) ==
    /\ events' = Append(events, ErrorEv(s, n))
    /\ pc' = "finally"

ClosedFile == [opened |-> FALSE, kind |-> "none", hdr |-> <<>>, recs |-> <<>>]

(***************************************************************************)
(* Convert: DatToTxtWorker.run                                             *)
(***************************************************************************)
\* a plausible slip in the checks of lines 73-80: the flux type of a
\* spectral-aware file (ray_format_type 2) is not checked
HeaderCheckNoSpectralFlux(f) ==
    CASE f.len # HeaderSize ->
           [ok |-> FALSE, s |-> "File too small to contain valid header", n |-> 0]
      [] ~(f.identifier = IdentA \/ f.identifier = IdentB) ->
           [ok |-> FALSE, s |-> "Incorrect file identifier: ", n |-> f.identifier]
      [] ~(f.ray_format_type = 0 \/ f.ray_format_type = 2) ->
           [ok |-> FALSE, s |-> "Incorrect file format identifier: ",
            n |-> f.ray_format_type]
      [] f.ray_format_type = 0 /\ ~(f.flux_type = 0 \/ f.flux_type = 1) ->
           [ok |-> FALSE, s |-> "Incorrect flux type identifier: ", n |-> f.flux_type]
      [] OTHER -> [ok |-> TRUE, s |-> "", n |-> 0]

\* the header checks of lines 49-82, in order: the first that fails
HeaderCheck(f) ==
    CASE f.len # HeaderSize ->
           [ok |-> FALSE, s |-> "File too small to contain valid header", n |-> 0]
      [] ~(f.identifier = IdentA \/ f.identifier = IdentB) ->
           [ok |-> FALSE, s |-> "Incorrect file identifier: ", n |-> f.identifier]
      [] ~(f.ray_format_type = 0 \/ f.ray_format_type = 2) ->
           [ok |-> FALSE, s |-> "Incorrect file format identifier: ",
            n |-> f.ray_format_type]
      [] f.ray_format_type = 0 /\ ~(f.flux_type = 0 \/ f.flux_type = 1) ->
           [ok |-> FALSE, s |-> "Incorrect flux type identifier: ", n |-> f.flux_type]
      [] f.ray_format_type # 0 /\ f.flux_type # 0 ->
           [ok |-> FALSE, s |-> "Incorrect flux type identifier: ", n |-> f.flux_type]
      [] OTHER -> [ok |-> TRUE, s |-> "", n |-> 0]

\* ray_floats: 7 for ray_format_type 0, 8 otherwise
RayFloats(f) == IF f.ray_format_type = 0 THEN 7 ELSE 8

\* int((i / max(1, nbr_rays)) * 100)
ConvertTick(idx) == IntProd(100, idx, Max(1, binFile.ray_count))

\* lines 41-82: open the input, read and validate the header
CvHeader ==
    /\ op = "convert" /\ pc = "cv_header"
    /\ LET chk == HeaderCheck(binFile)
           ev == events \o <<Progress(0), Status("Reading binary header...")>>
       IN IF chk.ok
          THEN /\ events' = ev
               /\ pc' = "cv_open"
          ELSE /\ events' = Append(ev, ErrorEv(chk.s, chk.n))
               /\ pc' = "finally"
    /\ UNCHANGED <<op, cvVars, ssParams, ssLocals, stLocals, out>>

\* lines 84-89: open the output and write the ASCII header line
CvOpen ==
    /\ op = "convert" /\ pc = "cv_open"
    /\ out' = [opened |-> TRUE, kind |-> "ascii",
               hdr |-> <<binFile.ray_count, binFile.dimension_units,
                         binFile.ray_format_type, binFile.flux_type>>,
               recs |-> <<>>]
    /\ events' = events \o <<Status("Writing ASCII header..."),
                             Status("Converting rays...")>>
    /\ i' = 0
    /\ pos' = 0
    /\ pc' = "cv_ray"
    /\ UNCHANGED <<op, binFile, ssParams, ssLocals, stLocals>>

\* lines 90-102: one iteration of `for i in range(nbr_rays)`
CvRay ==
    /\ op = "convert" /\ pc = "cv_ray"
    /\ i < binFile.ray_count
    /\ LET nf == RayFloats(binFile)
           ev == IF i % ProgressEvery = 0
                 THEN Append(events, Progress(ConvertTick(i)))
                 ELSE events
       IN IF Len(binFile.body) - pos < nf
          THEN /\ events' = Append(ev, ErrorEv("Unexpected EOF at ray ", i))
               /\ pc' = "finally"
               /\ UNCHANGED <<i, pos, out>>
          ELSE /\ events' = ev
               /\ out' = [out EXCEPT !.recs =
                             Append(@, SubSeq(binFile.body, pos + 1, pos + nf))]
               /\ pos' = pos + nf
               /\ i' = i + 1
               /\ pc' = "cv_ray"
    /\ UNCHANGED <<op, binFile, ssParams, ssLocals, stLocals>>

\* lines 104-106: the loop is over; report success
CvFinish ==
    /\ op = "convert" /\ pc = "cv_ray"
    /\ i >= binFile.ray_count
    /\ events' = events \o <<Progress(100), Status("Conversion complete"), Finished>>
    /\ pc' = "finally"
    /\ UNCHANGED <<op, cvVars, ssParams, ssLocals, stLocals, out>>

\* lines 109-111 and 262-264: the `finally` branch of either worker
Finally ==
    /\ pc = "finally"
    /\ events' = events \o <<Progress(0), Status("")>>
    /\ pc' = "done"
    /\ UNCHANGED <<op, cvVars, ssParams, ssLocals, stLocals, out>>

(***************************************************************************)
(* ASCII input lines.  A line is its token count nt, the four tokens h of  *)
(* a header-shaped line (integers), and the direction and flux tokens of a *)
(* ray line (the position tokens are 0 in every ray of the model).         *)
(***************************************************************************)
HdrLine(c, u, f, t) == [nt |-> 4, h |-> <<c, u, f, t>>, dir |-> "", flux |-> ""]
RayLine(d, fl) == [nt |-> 7, h |-> <<0, 0, 0, 0>>, dir |-> d, flux |-> fl]
SpectralLine == [nt |-> 8, h |-> <<0, 0, 0, 0>>, dir |-> "+z", flux |-> "1"]

\* str.isdigit() of an integer token: no sign, so the integer is >= 0
IsDigit(tok) == tok >= 0

\* len(line.split()) == 4 and line.split()[0].isdigit()
IsHeaderLine(ln) == ln.nt = 4 /\ IsDigit(ln.h[1])

\* next(i for i, line in enumerate(lines) if ...), 1-based; 0 for StopIteration
HeaderIndex(lines) ==
    IF \E j \in 1..Len(lines) : IsHeaderLine(lines[j])
    THEN CHOOSE j \in 1..Len(lines) :
             /\ IsHeaderLine(lines[j])
             /\ \A m \in 1..(j - 1) : ~IsHeaderLine(lines[m])
    ELSE 0

IsRayLine(ln) == ln.nt = 7

\* the direction cosines (l, m, n) of a direction token
DirVec(d) ==
    CASE d = "+z" -> <<0, 0, 1>>
      [] d = "-z" -> <<0, 0, -1>>
      [] d = "+x" -> <<1, 0, 0>>
      [] d = "+y" -> <<0, 1, 0>>
      [] OTHER -> <<0, 0, 0>>

\* lines 283-297: the (ti, pj) bin of a direction, 90 x 180 grid; the zero
\* vector is divided by 1e-12 and lands in the bin of +x
DirBin(d) ==
    CASE d = "+z" -> <<0, 90>>
      [] d = "-z" -> <<89, 90>>
      [] d = "+x" -> <<45, 90>>
      [] d = "+y" -> <<45, 135>>
      [] OTHER -> <<45, 90>>

\* random.sample(seq, k) for 0 <= k <= len(seq): every arrangement of k
\* distinct positions
Samples(seq, k) ==
    LET P == {f \in [1..k -> 1..Len(seq)] :
                 \A a, b \in 1..k : a # b => f[a] # f[b]}
    IN {[j \in 1..k |-> seq[f[j]]] : f \in P}

\* random.sample raises ValueError for these k
SampleRaises(seq, k) == k < 0 \/ k > Len(seq)

\* seq[:k] of Python, k may be negative
Prefix(seq, k) ==
    IF k >= 0 THEN SubSeq(seq, 1, Min(k, Len(seq)))
    ELSE SubSeq(seq, 1, Max(0, Len(seq) + k))

RECURSIVE SumSeq(_)
SumSeq(q) == IF q = <<>> THEN 0 ELSE Head(q) + SumSeq(Tail(q))

\* whether a worker reported success
Succeeded == \E j \in 1..Len(events) : events[j].sig = "finished"
Failed == \E j \in 1..Len(events) : events[j].sig = "error"

(***************************************************************************)
(* Subsample: SubsampleWorker.run, lines 130-154                           *)
(***************************************************************************)
\* a plausible slip in the check of line 150: off by one
InsufficientRaysOffByOne(available, target) == available + 1 < target

\* line 150: len(ray_lines) < self.target_rays
InsufficientRays(available, target) == available < target

LoadTick(total_lines, idx) == IntProd(50, idx, total_lines)

SsLoad ==
    /\ op = "subsample" /\ pc = "ss_load"
    /\ LET ev == events \o <<Progress(0), Status("Loading file...")>>
           lines == txtFile.lines
           hi == HeaderIndex(lines)
           rest == SubSeq(lines, hi + 1, Len(lines))
           total_lines == Max(1, Len(rest))
           ev2 == ev \o Ticks(Len(rest), LAMBDA idx : LoadTick(total_lines, idx))
           rl == SelectSeq(rest, IsRayLine)
       IN IF txtFile.dat_ext
          THEN /\ events' = Append(ev, ErrorEv(
                     "Binary .dat not supported for subsampling. Convert to ASCII .txt first.", 0))
               /\ pc' = "finally"
               /\ UNCHANGED <<header, ray_lines>>
          ELSE IF hi = 0
          THEN \* StopIteration: str(e) is the empty string
               /\ events' = Append(ev, ErrorEv("", 0))
               /\ pc' = "finally"
               /\ UNCHANGED <<header, ray_lines>>
          ELSE IF InsufficientRays(Len(rl), target_rays)
          THEN /\ events' = Append(ev2, ErrorEv("File has only N rays, N = ", Len(rl)))
               /\ pc' = "finally"
               /\ header' = lines[hi].h
               /\ ray_lines' = rl
          ELSE /\ events' = ev2 \o <<Status("Subsampling..."), Progress(50)>>
               /\ pc' = "ss_sample"
               /\ header' = lines[hi].h
               /\ ray_lines' = rl
    /\ UNCHANGED <<op, cvVars, ssParams, sampled_rays, sampled, ray_data,
                   stLocals, out>>

\* lines 155-158: random.sample, or enter _subsample_angular_stratified
SsSample ==
    /\ op = "subsample" /\ pc = "ss_sample"
    /\ IF method = "random"
       THEN IF SampleRaises(ray_lines, target_rays)
            THEN /\ Fail("Sample larger than population or is negative", 0)
                 /\ UNCHANGED <<sampled_rays, sampled>>
            ELSE /\ \E smp \in Samples(ray_lines, target_rays) : sampled_rays' = smp
                 /\ sampled' = TRUE
                 /\ pc' = "ss_scale"
                 /\ UNCHANGED events
       ELSE /\ pc' = "st_bin"
            /\ UNCHANGED <<events, sampled_rays, sampled>>
    /\ UNCHANGED <<op, cvVars, ssParams, header, ray_lines, ray_data,
                   stLocals, out>>

(***************************************************************************)
(* _subsample_angular_stratified, lines 266-357                            *)
(***************************************************************************)
RECURSIVE KeysAcc(_, _)
KeysAcc(lines, acc) ==
    IF lines = <<>> THEN acc
    ELSE LET key == DirBin(Head(lines).dir)
         IN KeysAcc(Tail(lines),
                    IF \E j \in 1..Len(acc) : acc[j] = key THEN acc
                    ELSE Append(acc, key))

\* the keys of `bins`, in insertion order
KeysInOrder(lines) == KeysAcc(lines, <<>>)

InBin(key, ln) == DirBin(ln.dir) = key

\* bins[key]
BinLines(lines, key) == SelectSeq(lines, LAMBDA ln : InBin(key, ln))

RECURSIVE FluxSum(_)
FluxSum(lines) ==
    IF lines = <<>> THEN FZero
    ELSE FAdd(FMax0(ParseFloat(Head(lines).flux)), FluxSum(Tail(lines)))

\* flux_in_bin[key]
FluxInBin(lines, key) == FluxSum(BinLines(lines, key))

\* total_flux = sum(flux_in_bin.values()); every ray is in one bin
TotalFlux(lines) == FluxSum(lines)

\* int(round(...)) of line 312 raises for nan = inf / inf
AllocRaises(lines, keys) ==
    /\ TotalFlux(lines).k = "inf"
    /\ \E j \in 1..Len(keys) : FluxInBin(lines, keys[j]).k = "inf"

\* lines 305-312: the quota of a bin before the clamp.  The share of a
\* bin, counts[k] / total_count or flux_in_bin[k] / total_flux, is one
\* double division, its product with k_target one double multiplication.
\* Two flux sums of the same exponent divide like their integers; a sum of
\* multiples of 2^-160 over a total of at least 1 gives a share below
\* 2^-133, which rounds to 0.
RawAlloc(k_target, lines, key) ==
    LET total == TotalFlux(lines)
        f == FluxInBin(lines, key)
    IN IF ~GtZero(total)
       THEN RoundProd(k_target, Len(BinLines(lines, key)), Max(1, Len(lines)))
       ELSE IF total.k = "inf" \/ f.n = 0 \/ f.e < total.e THEN 0
       ELSE RoundProd(k_target, f.n, total.n)

\* line 316: min(len(bins[k]), max(1, v))
Clamp(population, v) == Min(population, Max(1, v))

\* the first position of keys whose value is the largest
FirstMax(keys, val) ==
    CHOOSE j \in 1..Len(keys) :
        /\ \A m \in 1..Len(keys) : val[keys[m]] <= val[keys[j]]
        /\ \A m \in 1..(j - 1) : val[keys[m]] < val[keys[j]]

RemoveAt(q, j) == SubSeq(q, 1, j - 1) \o SubSeq(q, j + 1, Len(q))

\* sorted(keys, key=val, reverse=True): stable, computed once before the loop
RECURSIVE SortDesc(_, _)
SortDesc(keys, val) ==
    IF keys = <<>> THEN <<>>
    ELSE LET j == FirstMax(keys, val)
         IN <<keys[j]>> \o SortDesc(RemoveAt(keys, j), val)

KeySet(keys) == {keys[j] : j \in 1..Len(keys)}

SumAlloc(a, keys) == SumSeq([j \in 1..Len(keys) |-> a[keys[j]]])

\* lines 272-302: the prepass that bins the rays
StBin ==
    /\ op = "subsample" /\ pc = "st_bin"
    /\ IF \E j \in 1..Len(ray_lines) : ~ParseOK(ray_lines[j].flux)
       THEN /\ Fail("could not convert string to float: 'x'", 0)
            /\ UNCHANGED <<binKeys, sampled_rays, sampled>>
       ELSE IF ray_lines = <<>>
       THEN \* `if not bins: return random.sample(ray_lines, k_target)`
            IF SampleRaises(ray_lines, target_rays)
            THEN /\ Fail("Sample larger than population or is negative", 0)
                 /\ UNCHANGED <<binKeys, sampled_rays, sampled>>
            ELSE /\ sampled_rays' = <<>>
                 /\ sampled' = TRUE
                 /\ pc' = "ss_scale"
                 /\ UNCHANGED <<events, binKeys>>
       ELSE /\ binKeys' = KeysInOrder(ray_lines)
            /\ pc' = "st_alloc"
            /\ UNCHANGED <<events, sampled_rays, sampled>>
    /\ UNCHANGED <<op, cvVars, ssParams, header, ray_lines, ray_data,
                   alloc, alloc0, current_total, order, oi, out>>

\* lines 305-321 and 328-329: quotas, clamp, and the order of the loop
StAlloc ==
    /\ op = "subsample" /\ pc = "st_alloc"
    /\ IF AllocRaises(ray_lines, binKeys)
       THEN /\ Fail("cannot convert float NaN to integer", 0)
            /\ UNCHANGED <<alloc, alloc0, current_total, order, oi>>
       ELSE LET a == [key \in KeySet(binKeys) |->
                         Clamp(Len(BinLines(ray_lines, key)),
                               RawAlloc(target_rays, ray_lines, key))]
                tot == SumAlloc(a, binKeys)
                spare == [key \in KeySet(binKeys) |->
                             Len(BinLines(ray_lines, key)) - a[key]]
            IN /\ alloc' = a
               /\ alloc0' = a
               /\ current_total' = tot
               /\ oi' = 1
               /\ order' = IF tot > target_rays THEN SortDesc(binKeys, a)
                           ELSE IF tot < target_rays THEN SortDesc(binKeys, spare)
                           ELSE <<>>
               /\ pc' = IF tot > target_rays THEN "st_dec"
                        ELSE IF tot < target_rays THEN "st_inc"
                        ELSE "st_pick"
               /\ UNCHANGED events
    /\ UNCHANGED <<op, cvVars, ssParams, ssLocals, binKeys, out>>

\* lines 321-326: one evaluation of the `while` of the decrement loop
DecCond(a, total, key) == total > target_rays /\ a[key] > 1

StDec ==
    /\ op = "subsample" /\ pc = "st_dec"
    /\ IF oi > Len(order)
       THEN /\ pc' = "st_pick"
            /\ UNCHANGED <<alloc, current_total, oi>>
       ELSE IF DecCond(alloc, current_total, order[oi])
       THEN /\ alloc' = [alloc EXCEPT ![order[oi]] = @ - 1]
            /\ current_total' = current_total - 1
            /\ UNCHANGED <<pc, oi>>
       ELSE /\ oi' = oi + 1
            /\ UNCHANGED <<pc, alloc, current_total>>
    /\ UNCHANGED <<op, events, cvVars, ssParams, ssLocals, binKeys,
                   alloc0, order, out>>

\* lines 329-334: one evaluation of the `while` of the increment loop
IncCond(a, total, key) ==
    total < target_rays /\ a[key] < Len(BinLines(ray_lines, key))

StInc ==
    /\ op = "subsample" /\ pc = "st_inc"
    /\ IF oi > Len(order)
       THEN /\ pc' = "st_pick"
            /\ UNCHANGED <<alloc, current_total, oi>>
       ELSE IF IncCond(alloc, current_total, order[oi])
       THEN /\ alloc' = [alloc EXCEPT ![order[oi]] = @ + 1]
            /\ current_total' = current_total + 1
            /\ UNCHANGED <<pc, oi>>
       ELSE /\ oi' = oi + 1
            /\ UNCHANGED <<pc, alloc, current_total>>
    /\ UNCHANGED <<op, events, cvVars, ssParams, ssLocals, binKeys,
                   alloc0, order, out>>

\* lines 337-345: the results of sampling within the bins, in bin order
RECURSIVE BinResults(_)
BinResults(ks) ==
    IF ks = <<>> THEN {<<>>}
    ELSE LET lines == BinLines(ray_lines, Head(ks))
             k == alloc[Head(ks)]
             ch == IF k <= 0 THEN {<<>>}
                   ELSE IF k >= Len(lines) THEN {lines}
                   ELSE Samples(lines, k)
         IN {a \o b : a \in ch, b \in BinResults(Tail(ks))}

\* lines 348-357: trim to k_target, or pad from the lines not selected
TrimOrPad(result) ==
    IF Len(result) > target_rays THEN {Prefix(result, target_rays)}
    ELSE IF Len(result) < target_rays
    THEN LET result_set == {result[j] : j \in 1..Len(result)}
             remaining == SelectSeq(ray_lines, LAMBDA ln : ln \notin result_set)
             need == target_rays - Len(result)
         IN IF remaining # <<>>
            THEN {result \o x : x \in Samples(remaining, Min(need, Len(remaining)))}
            ELSE {result}
    ELSE {result}

StPick ==
    /\ op = "subsample" /\ pc = "st_pick"
    /\ \E result \in BinResults(binKeys) :
           \E final \in TrimOrPad(result) : sampled_rays' = final
    /\ sampled' = TRUE
    /\ pc' = "ss_scale"
    /\ UNCHANGED <<op, events, cvVars, ssParams, header, ray_lines,
                   ray_data, stLocals, out>>

(***************************************************************************)
(* SubsampleWorker.run, lines 160-264                                      *)
(***************************************************************************)
\* 50 + int((i / max(1, self.target_rays)) * 10)
ScaleTick(idx) == 50 + IntProd(10, idx, Max(1, target_rays))

\* 60 + int((i / max(1, self.target_rays)) * 40)
WriteTick(idx) == 60 + IntProd(40, idx, Max(1, target_rays))

\* lines 172-175: the flux of a selected ray after scaling
ScaledFlux(tok, original_ray_count) ==
    Sanitize(FMulRat(ParseFloat(tok), original_ray_count, target_rays))

\* the first line of q that float() rejects; 0 when every line parses
FirstBad(q) ==
    IF \E j \in 1..Len(q) : ~ParseOK(q[j].flux)
    THEN CHOOSE j \in 1..Len(q) :
             /\ ~ParseOK(q[j].flux)
             /\ \A m \in 1..(j - 1) : ParseOK(q[m].flux)
    ELSE 0

\* lines 160-184: scale and sanitize the flux of every selected ray
SsScale ==
    /\ op = "subsample" /\ pc = "ss_scale"
    /\ LET ev == Append(events, Status("Scaling fluxes..."))
           bad == FirstBad(sampled_rays)
       IN IF target_rays = 0
          THEN /\ events' = Append(ev, ErrorEv("division by zero", 0))
               /\ pc' = "finally"
               /\ UNCHANGED ray_data
          ELSE IF bad # 0
          THEN /\ events' = Append(ev \o Ticks(bad, ScaleTick),
                                   ErrorEv("could not convert string to float: 'x'", 0))
               /\ pc' = "finally"
               /\ ray_data' = [j \in 1..(bad - 1) |->
                                  [dir |-> sampled_rays[j].dir,
                                   flux |-> ScaledFlux(sampled_rays[j].flux, header[1])]]
          ELSE /\ ray_data' = [j \in 1..Len(sampled_rays) |->
                                  [dir |-> sampled_rays[j].dir,
                                   flux |-> ScaledFlux(sampled_rays[j].flux, header[1])]]
               /\ events' = ev \o Ticks(Len(sampled_rays), ScaleTick)
                               \o <<Status("Saving file..."), Progress(60)>>
               /\ pc' = "ss_write"
    /\ UNCHANGED <<op, cvVars, ssParams, header, ray_lines, sampled_rays,
                   sampled, stLocals, out>>

\* the seven values of a written ray: x y z l m n flux
RayWords(d, f) ==
    <<DZero, DZero, DZero,
      FromInt(DirVec(d)[1]), FromInt(DirVec(d)[2]), FromInt(DirVec(d)[3]), f>>

\* line 190: the flux of a txt record is ray[6] as scaled
TxtFlux(f) == f

\* lines 211-213: the flux of a tracepro record, sanitized again
TraceProFlux(f) == Sanitize(f)

\* lines 252-255: the flux of a dat record, sanitized again, stored as float32
DatFlux(f) == Pack32(Sanitize(f))

\* lines 215-244: the header of the dat output (identifier, nbr_rays,
\* dim_units, ray_format_type, flux_type)
DatHeader == <<IdentB, target_rays, header[2], header[3], header[4]>>

\* struct.pack('<6ff', ...): seven float32 words per ray
DatRecord(r) ==
    [j \in 1..7 |-> IF j = 7 THEN DatFlux(r.flux)
                    ELSE Pack32(RayWords(r.dir, r.flux)[j])]

\* lines 186-255: open the output and write it in the chosen format
SsWrite ==
    /\ op = "subsample" /\ pc = "ss_write"
    /\ IF output_format = "txt"
       THEN /\ out' = [opened |-> TRUE, kind |-> "txt",
                       hdr |-> <<target_rays, header[2], header[3], header[4]>>,
                       recs |-> [j \in 1..Len(ray_data) |->
                                    RayWords(ray_data[j].dir, TxtFlux(ray_data[j].flux))]]
            /\ UNCHANGED events
       ELSE IF output_format = "tracepro"
       THEN /\ out' = [opened |-> TRUE, kind |-> "tracepro",
                       hdr |-> <<header[1], target_rays>>,
                       recs |-> [j \in 1..Len(ray_data) |->
                                    RayWords(ray_data[j].dir,
                                             TraceProFlux(ray_data[j].flux))]]
            /\ events' = events \o Ticks(Len(ray_data), WriteTick)
       ELSE /\ out' = [opened |-> TRUE, kind |-> "dat",
                       hdr |-> DatHeader,
                       recs |-> [j \in 1..Len(ray_data) |-> DatRecord(ray_data[j])]]
            /\ events' = events \o Ticks(Len(ray_data), WriteTick)
    /\ pc' = "ss_finish"
    /\ UNCHANGED <<op, cvVars, ssParams, ssLocals, stLocals>>

\* lines 257-259
SsFinish ==
    /\ op = "subsample" /\ pc = "ss_finish"
    /\ events' = events \o <<Progress(100), Status("Done!"), Finished>>
    /\ pc' = "finally"
    /\ UNCHANGED <<op, cvVars, ssParams, ssLocals, stLocals, out>>

RECURSIVE Flatten(_)
Flatten(q) == IF q = <<>> THEN <<>> ELSE Head(q) \o Flatten(Tail(q))

\* the dat file Subsample wrote, as Convert reads it
WrittenDat ==
    [len |-> HeaderSize, identifier |-> out.hdr[1], ray_count |-> out.hdr[2],
     dimension_units |-> out.hdr[3], ray_format_type |-> out.hdr[4],
     flux_type |-> out.hdr[5], body |-> Flatten(out.recs)]

\* DatToTxtWorker.run on the file f as a whole: whether it reports success
\* and how many ray lines it writes.  The loop reads record after record
\* and stops at the first one the file does not hold in full.
ConvertOutcome(f) ==
    LET held == Len(f.body) \div RayFloats(f)
    IN IF ~HeaderCheck(f).ok THEN [ok |-> FALSE, lines |-> 0]
       ELSE IF held < f.ray_count THEN [ok |-> FALSE, lines |-> held]
       ELSE [ok |-> TRUE, lines |-> Max(0, f.ray_count)]

(***************************************************************************)
(* Inputs.                                                                 *)
(***************************************************************************)
SeqsUpTo(S, n) == UNION {[1..m -> S] : m \in 0..n}

NoBinFile ==
    [len |-> 0, identifier |-> 0, ray_count |-> 0, dimension_units |-> 0,
     ray_format_type |-> 0, flux_type |-> 0, body |-> <<>>]

NoTxtFile == [dat_ext |-> FALSE, lines |-> <<>>]

\* the state every run starts from, apart from its inputs
Fresh ==
    /\ events = <<>>
    /\ pos = 0
    /\ i = 0
    /\ header = <<>>
    /\ ray_lines = <<>>
    /\ sampled_rays = <<>>
    /\ sampled = FALSE
    /\ ray_data = <<>>
    /\ binKeys = <<>>
    /\ alloc = <<>>
    /\ alloc0 = <<>>
    /\ current_total = 0
    /\ order = <<>>
    /\ oi = 0
    /\ out = ClosedFile

\* binary inputs of Convert: any header fields, any body length
\* (len is the number of bytes the file has for its header)
InitConvert ==
    /\ op = "convert" /\ pc = "cv_header"
    /\ \E len \in {HeaderSize - 1, HeaderSize},
          ident \in {IdentA, IdentB, 9999},
          cnt \in -1..MaxCount,
          fmt \in 0..2,
          ft \in 0..2,
          words \in 0..MaxWords :
          \* a file too short for its header has no body
          /\ (len < HeaderSize => words = 0)
          /\ binFile = [len |-> len, identifier |-> ident, ray_count |-> cnt,
                     dimension_units |-> 1, ray_format_type |-> fmt,
                     flux_type |-> ft, body |-> [j \in 1..words |-> FromInt(1)]]
    /\ txtFile = NoTxtFile
    /\ target_rays = 0 /\ output_format = "txt" /\ method = "random"
    /\ Fresh

FluxToks == {"nan", "inf", "-1", "0", "1", TinyTok, "x"}
Formats == {"txt", "tracepro", "dat"}
Methods == {"random", "angular_stratified"}

\* flux family: one direction, every flux token, every format with random
\* sampling and the txt format with stratified sampling (the sampling
\* method and the output format do not act on each other)
InitFlux ==
    /\ op = "subsample" /\ pc = "ss_load"
    /\ \E cnt \in {0, 1, MaxCount},
          body \in SeqsUpTo({RayLine("+z", f) : f \in FluxToks} \cup {SpectralLine},
                            MaxRays) :
          txtFile = [dat_ext |-> FALSE, lines |-> <<HdrLine(cnt, 1, 0, 0)>> \o body]
    /\ target_rays \in -1..(MaxRays + 1)
    /\ output_format \in Formats
    /\ method \in Methods
    /\ (method = "random" \/ output_format = "txt")
    /\ binFile = NoBinFile
    /\ Fresh

\* direction family: stratified sampling of rays spread over bins, flux 0
\* or 1, and 2^-160 in the bin of -z
InitDir ==
    /\ op = "subsample" /\ pc = "ss_load"
    /\ \E body \in SeqsUpTo({RayLine(d, f) : d \in {"+z", "-z", "zero"},
                                             f \in {"0", "1"}} \cup {RayLine("-z", TinyTok)}, MaxDirRays) :
          txtFile = [dat_ext |-> FALSE,
                     lines |-> <<HdrLine(Len(body), 1, 0, 0)>> \o body]
    /\ target_rays \in -1..MaxDirRays
    /\ output_format = "txt"
    /\ method = "angular_stratified"
    /\ binFile = NoBinFile
    /\ Fresh

\* header family: any header tokens, a leading line, no header, a .dat name
InitHeader ==
    /\ op = "subsample" /\ pc = "ss_load"
    /\ \E lead \in {<<>>, <<HdrLine(-1, 1, 0, 0)>>},
          hdr \in {<<>>} \cup {<<HdrLine(cnt, 1, fmt, ft)>> :
                                  cnt \in 1..MaxCount, fmt \in 0..2, ft \in 0..2},
          body \in {<<RayLine("+z", "1")>>, <<RayLine("+z", "1"), RayLine("+x", "1")>>},
          ext \in BOOLEAN :
          txtFile = [dat_ext |-> ext, lines |-> lead \o hdr \o body]
    /\ target_rays \in 1..2
    /\ output_format \in Formats
    /\ method \in Methods
    /\ binFile = NoBinFile
    /\ Fresh

Init == InitConvert \/ InitFlux \/ InitDir \/ InitHeader

Next ==
    \/ CvHeader \/ CvOpen \/ CvRay \/ CvFinish
    \/ SsLoad \/ SsSample
    \/ StBin \/ StAlloc \/ StDec \/ StInc \/ StPick
    \/ SsScale \/ SsWrite \/ SsFinish
    \/ Finally

Spec == Init /\ [][Next]_vars

(***************************************************************************)
(* The stratified family: larger ray sets, described bin by bin.  Each of  *)
(* four directions has 0..MaxPop rays, all with the same flux token; the   *)
(* header states the true ray count.                                       *)
(***************************************************************************)
Replicate(n, x) == [j \in 1..n |-> x]

StratDirs == <<"+z", "-z", "+x", "+y">>

StratBody(pop, tok) ==
    Flatten([j \in 1..Len(StratDirs) |->
                Replicate(pop[j], RayLine(StratDirs[j], tok[j]))])

InitStrat ==
    /\ op = "subsample" /\ pc = "ss_load"
    /\ \E pop \in [1..Len(StratDirs) -> 0..MaxPop],
          tok \in [1..Len(StratDirs) -> {"0", "1"}] :
          /\ \A j \in 1..Len(StratDirs) : pop[j] = 0 => tok[j] = "0"
          /\ txtFile = [dat_ext |-> FALSE,
                        lines |-> <<HdrLine(Len(StratBody(pop, tok)), 1, 0, 0)>>
                                  \o StratBody(pop, tok)]
    /\ target_rays \in 1..MaxStratTarget
    /\ output_format = "txt"
    /\ method = "angular_stratified"
    /\ binFile = NoBinFile
    /\ Fresh

NextStrat ==
    \/ SsLoad \/ SsSample
    \/ StBin \/ StAlloc \/ StDec \/ StInc \/ StPick
    \/ SsScale \/ SsWrite \/ SsFinish
    \/ Finally

SpecStrat == InitStrat /\ [][NextStrat]_vars

(***************************************************************************)
(* Properties.                                                             *)
(***************************************************************************)
\* the number of 7-token lines after the header line of the input
RayPool ==
    LET hi == HeaderIndex(txtFile.lines)
    IN Len(SelectSeq(SubSeq(txtFile.lines, hi + 1, Len(txtFile.lines)), IsRayLine))

HasHeader == HeaderIndex(txtFile.lines) # 0

\* every flux token of the input is a number for float()
AllNumeric == \A j \in 1..Len(txtFile.lines) : ParseOK(txtFile.lines[j].flux)

SubsampleRun == op = "subsample" /\ ~txtFile.dat_ext

\* C1: with a header line and 1 <= target_rays <= number of ray lines, a
\* Subsample run (random or angular_stratified) selects exactly target_rays
\* rays and writes exactly target_rays ray records, whatever the
\* distribution of rays and of flux over the bins.
C1_ExactCount ==
    (/\ SubsampleRun /\ pc = "done"
     /\ HasHeader /\ AllNumeric
     /\ 1 <= target_rays /\ target_rays <= RayPool)
    => (/\ sampled
        /\ Len(sampled_rays) = target_rays
        /\ out.opened
        /\ Len(out.recs) = target_rays)

\* C2: when Convert reports success, the ASCII header carries the binary
\* header's ray_count and the number of ray lines written equals it, for
\* every value of ray_count.
C2_ConvertCount ==
    (op = "convert" /\ pc = "done" /\ Succeeded)
    => (/\ out.hdr[1] = binFile.ray_count
        /\ Len(out.recs) = binFile.ray_count)

\* C3: in angular_stratified, with pool size >= target_rays >= 1, the
\* quotas sum to target_rays exactly once the reconciliation loops are over.
C3_QuotaSum ==
    (/\ op = "subsample" /\ pc = "st_pick"
     /\ 1 <= target_rays /\ target_rays <= Len(ray_lines))
    => SumAlloc(alloc, binKeys) = target_rays

\* the header the claim C4 calls valid
C4_Valid(f) ==
    /\ f.len = HeaderSize
    /\ f.identifier \in {1010, 8675309}
    /\ \/ (f.ray_format_type = 0 /\ f.flux_type \in {0, 1})
       \/ (f.ray_format_type = 2 /\ f.flux_type = 0)

\* the first applicable error of C4, in the order TruncatedHeader,
\* UnknownIdentifier, UnknownFormatType, UnknownFluxType
C4_Expected(f) ==
    IF f.len < HeaderSize THEN "TruncatedHeader"
    ELSE IF f.identifier \notin {1010, 8675309} THEN "UnknownIdentifier"
    ELSE IF f.ray_format_type \notin {0, 2} THEN "UnknownFormatType"
    ELSE "UnknownFluxType"

\* the error kind and the value named by an error signal of Convert
C4_Kind(e) ==
    CASE e.s = "File too small to contain valid header" -> "TruncatedHeader"
      [] e.s = "Incorrect file identifier: " -> "UnknownIdentifier"
      [] e.s = "Incorrect file format identifier: " -> "UnknownFormatType"
      [] e.s = "Incorrect flux type identifier: " -> "UnknownFluxType"
      [] OTHER -> "other"

\* Convert is past its header checks
C4_Checked == op = "convert" /\ pc # "cv_header"

\* the header was rejected: the third signal of the run is the error
C4_Rejected == Len(events) >= 3 /\ events[3].sig = "error"

\* C4: Convert accepts a header iff it is full-size, its identifier is 1010
\* or 8675309 and (ray_format_type 0 with flux_type 0 or 1, or
\* ray_format_type 2 with flux_type 0); otherwise it fails with the first
\* applicable error, the identifier error naming the value, before the
\* output is opened: nothing is read, nothing is written.
C4_HeaderValidation ==
    C4_Checked =>
        /\ C4_Valid(binFile) <=> ~C4_Rejected
        /\ C4_Rejected =>
              /\ C4_Kind(events[3]) = C4_Expected(binFile)
              /\ (C4_Kind(events[3]) = "UnknownIdentifier"
                    => events[3].n = binFile.identifier)
              /\ ~out.opened /\ out.recs = <<>> /\ pos = 0
              /\ ~Succeeded

\* Scenario C: identifier 9999 was rejected with a message naming 9999
C4_Witness ==
    /\ op = "convert" /\ pc = "done"
    /\ binFile.len = HeaderSize /\ binFile.identifier = 9999
    /\ C4_Rejected /\ events[3].n = 9999

\* the flux C5 expects for a selected line
C5_Expected(ln) ==
    LET v == FMulRat(ParseFloat(ln.flux), header[1], target_rays)
    IN IF v.k # "fin" \/ v.s <= 0 THEN FloorVal ELSE v

\* a value as the output format holds it: the native binary format stores
\* float32, the nearest one
C5_Stored(v) == IF out.kind = "dat" THEN Pack32(v) ELSE v

\* C5: in every successful Subsample run, in each output format, every
\* flux written is finite and strictly positive: the floor value 1e-30 when
\* flux * scale is nan, infinite, zero or negative, flux * scale otherwise.
C5_FluxPositive ==
    (op = "subsample" /\ pc = "done" /\ Succeeded)
    => \A j \in 1..Len(out.recs) :
           /\ out.recs[j][7].k = "fin"
           /\ out.recs[j][7].s > 0
           /\ out.recs[j][7] = C5_Stored(C5_Expected(sampled_rays[j]))

\* C6: when target_rays exceeds the number of ray lines after the header,
\* Subsample fails (an error, no success) and never opens the output.
C6_InsufficientRays ==
    (op = "subsample" /\ HasHeader /\ target_rays > RayPool)
    => (/\ ~out.opened
        /\ ~Succeeded
        /\ (pc = "done" => Failed))

\* a run that ended on the InsufficientRays error
C6_Witness ==
    /\ SubsampleRun /\ pc = "done"
    /\ HasHeader /\ target_rays > RayPool /\ RayPool >= 1
    /\ \E j \in 1..Len(events) :
          events[j].sig = "error" /\ events[j].n = RayPool /\ events[j].s # ""

\* the two signals of the `finally` branch
C7_Tail == {Progress(0), Status("")}

\* C7: a failing run emits exactly one error and no success, the error
\* carries a non-empty message, and nothing but the closing signals follows.
C7_SingleError ==
    \A j \in 1..Len(events) :
        events[j].sig = "error" =>
            /\ events[j].s # ""
            /\ ~Succeeded
            /\ \A m \in 1..Len(events) : events[m].sig = "error" => m = j
            /\ \A m \in (j + 1)..Len(events) : events[m] \in C7_Tail
            /\ pc \in {"finally", "done"}

\* C8: an input whose number of ray records differs from the ray_count of
\* its header is never processed successfully (stated here for the headers
\* whose ray_count is not negative).
C8_CountMismatch ==
    (pc = "done" /\ Succeeded)
    => IF op = "convert"
       THEN binFile.ray_count >= 0
            => Len(binFile.body) = binFile.ray_count * RayFloats(binFile)
       ELSE RayPool = header[1]

\* C9: a dat file written by a successful Subsample has a header Convert
\* accepts, a ray_count equal to the records written, records of the size
\* its ray_format_type prescribes, and Convert on it succeeds with exactly
\* target_rays ray lines.
C9_DatWellFormed ==
    (op = "subsample" /\ pc = "done" /\ Succeeded /\ out.kind = "dat")
    => (/\ HeaderCheck(WrittenDat).ok
        /\ WrittenDat.ray_count = Len(out.recs)
        /\ \A j \in 1..Len(out.recs) : Len(out.recs[j]) = RayFloats(WrittenDat)
        /\ ConvertOutcome(WrittenDat) = [ok |-> TRUE, lines |-> target_rays])

\* the quotas of a map, largest first
QuotasDesc(a, keys) ==
    LET sorted == SortDesc(keys, a) IN [j \in 1..Len(sorted) |-> a[sorted[j]]]

\* the reference procedure on quotas kept largest first: while the sum
\* exceeds the target and the largest quota exceeds 1, decrement a largest
RECURSIVE RefDecrement(_, _)
RefDecrement(q, target) ==
    IF q = <<>> \/ SumSeq(q) <= target \/ q[1] <= 1 THEN q
    ELSE LET last == CHOOSE j \in 1..Len(q) :
                         q[j] = q[1] /\ (j = Len(q) \/ q[j + 1] < q[1])
         IN RefDecrement([q EXCEPT ![last] = @ - 1], target)

\* C10: when the quotas exceed target_rays, the decrements are applied to a
\* currently-largest quota each time: the final quotas are those of the
\* reference procedure, up to ties.
C10_DecrementLargest ==
    (/\ op = "subsample" /\ pc = "st_pick"
     /\ SumAlloc(alloc0, binKeys) > target_rays)
    => QuotasDesc(alloc, binKeys) = RefDecrement(QuotasDesc(alloc0, binKeys), target_rays)

\* the values of the progress_changed events of the run, in emission order
ProgressValues ==
    LET ps == SelectSeq(events, LAMBDA e : e.sig = "progress_changed")
    IN [j \in 1..Len(ps) |-> ps[j].n]

\* a Convert run that has ended with the success event, on a file whose
\* ray_count is a count (the negative counts of C2 are left out here)
ConvertSucceeded ==
    op = "convert" /\ pc = "done" /\ Succeeded /\ binFile.ray_count >= 0

\* C11: in every successful Convert run the progress ticks emitted by the
\* operation are integers in 0..100, form a non-decreasing sequence, and the
\* last tick of the run is 100 (no other progress value follows the 100
\* emitted after the last record).
C11_ProgressTicks ==
    ConvertSucceeded
    => LET v == ProgressValues
       IN /\ Len(v) > 0
          /\ \A j \in 1..Len(v) : v[j] \in 0..100
          /\ \A j \in 1..(Len(v) - 1) : v[j] <= v[j + 1]
          /\ v[Len(v)] = 100

\* C12: a Subsample run with target_rays <= 0 (either method, any output
\* format) ends in failure without opening the output file; it never
\* reports success and never writes a file whose header count is
\* non-positive or differs from the number of records written.
C12_NonPositiveTarget ==
    (SubsampleRun /\ pc = "done" /\ target_rays <= 0)
    => (/\ Failed
        /\ ~Succeeded
        /\ ~out.opened)


====
